---- MODULE Spec2Model ----
(***************************************************************************)
(* A model of blocks/extensions/monitoring.py: the MonitoringExtension     *)
(* mixin (_record_name, record_name, add_records), DataStreamMonitoring.do *)
(* and TrainingDataMonitoring.do, driven by the main loop's callbacks.     *)
(*                                                                         *)
(* One instance of one of the three classes is constructed in Init; the    *)
(* variable kind says which.  The collaborators that live outside the file *)
(* (the log row, DatasetEvaluator, AggregationBuffer, the training         *)
(* algorithm and the main loop's status) are modelled by what the file     *)
(* asks of them.                                                           *)
(***************************************************************************)
EXTENDS Integers, Sequences, FiniteSets, TLC

VARIABLES
    kind,               \* the class instantiated: "mixin", "stream" or "training"
    prefix,             \* self.prefix
    variables,          \* the names of the monitored variables
    algorithm,          \* main_loop.algorithm: [capable, updates]
    iterations_done,    \* main_loop.status.iterations_done
    row,                \* main_loop.log.current_row: record name -> value
    buffer,             \* self._buffer: [initialized, values]
    last_time_called,   \* self._last_time_called
    pc,                 \* the main loop: "constructed", "training", "aborted"
    op,                 \* the method invoked last
    callback_name,      \* the callback name of the last do
    outcome,            \* how the last invocation ended: "ok" or the exception
    batch,              \* record_tuples of the last add_records, in iteration order
    calls,              \* the collaborator calls of the last invocation, in order
    result,             \* the value the last (_)record_name returned
    arg,                \* the name the last (_)record_name was given
    row0,               \* history: row when the last invocation began
    buffer0,            \* history: buffer when the last invocation began
    reports_this_iter   \* history: reporting invocations since iterations_done changed

vars == <<kind, prefix, variables, algorithm, iterations_done, row, buffer,
          last_time_called, pc, op, callback_name, outcome, batch, calls,
          result, arg, row0, buffer0, reports_this_iter>>

---------------------------------------------------------------------------
(* Bounds of the model. *)

MaxBatch == 2
MaxVariables == 2
MaxIterations == 2
MaxReports == 2

---------------------------------------------------------------------------
(* Python values: None and strings, with Python's truth value. *)

None == [type |-> "NoneType", v |-> ""]

Str(s) == [type |-> "str", v |-> s]

Truthy(x) == x.type = "str" /\ x.v # ""

PREFIX_SEPARATOR == "_"

Prefixes == {None, Str(""), Str("valid")}

Names == {None, Str(""), Str("loss"), Str("acc")}

Values == {5, 9}

OK == "ok"

MissingName == "ValueError: monitor variable without name"

NotCapable == "ValueError"

DoubleInvocation ==
    "Exception: TrainingDataMonitoring.do should be invoked no more than once per iteration"

TypeError == "TypeError"

ReportCallbacks == {"after_batch", "after_epoch"}

StreamCallbacks == {"before_epoch", "after_epoch"}

---------------------------------------------------------------------------
(* MonitoringExtension *)

\* Mutant: "if self.prefix is not None" in place of "if self.prefix".
record_name_prefix_not_none(pfx, name) ==
    IF pfx # None
    THEN IF name.type = "str"
         THEN [exc |-> "ok", value |-> Str(pfx.v \o "_" \o name.v)]
         ELSE [exc |-> "TypeError", value |-> None]
    ELSE [exc |-> "ok", value |-> name]

\* self.prefix + PREFIX_SEPARATOR + name if self.prefix else name
\* (str + None raises TypeError).
_record_name(pfx, name) ==
    IF Truthy(pfx)
    THEN IF name.type = "str"
         THEN [exc |-> OK, value |-> Str(pfx.v \o PREFIX_SEPARATOR \o name.v)]
         ELSE [exc |-> TypeError, value |-> None]
    ELSE [exc |-> OK, value |-> name]

\* self._record_name(variable.name)
record_name(pfx, variable) == _record_name(pfx, variable.name)

\* setattr(log.current_row, key, value)
setattr(current_row, key, value) == (key :> value) @@ current_row

Call(name) == [call |-> name, key |-> "", value |-> 0]

SetAttrCall(key, value) == [call |-> "setattr", key |-> key, value |-> value]

\* Mutant: "if name is None" in place of "if not name".
RECURSIVE add_records_none_only(_, _, _, _, _)
add_records_none_only(pfx, current_row, record_tuples, i, cs) ==
    IF i > Len(record_tuples)
    THEN [row |-> current_row, exc |-> OK, calls |-> cs]
    ELSE LET name == record_tuples[i][1]
             value == record_tuples[i][2]
         IN  IF name = None
             THEN [row |-> current_row, exc |-> MissingName, calls |-> cs]
             ELSE LET key == _record_name(pfx, name).value.v
                  IN  add_records_none_only(pfx, setattr(current_row, key, value),
                                            record_tuples, i + 1,
                                            Append(cs, SetAttrCall(key, value)))

\* Mutant: an unnamed pair is skipped and the error raised after the loop.
RECURSIVE add_records_raise_late(_, _, _, _, _)
add_records_raise_late(pfx, current_row, record_tuples, i, cs) ==
    IF i > Len(record_tuples)
    THEN [row |-> current_row,
          exc |-> IF \E j \in DOMAIN record_tuples : ~Truthy(record_tuples[j][1])
                  THEN MissingName ELSE OK,
          calls |-> cs]
    ELSE LET name == record_tuples[i][1]
             value == record_tuples[i][2]
         IN  IF ~Truthy(name)
             THEN add_records_raise_late(pfx, current_row, record_tuples, i + 1, cs)
             ELSE LET key == _record_name(pfx, name).value.v
                  IN  add_records_raise_late(pfx, setattr(current_row, key, value),
                                             record_tuples, i + 1,
                                             Append(cs, SetAttrCall(key, value)))

\* Mutant: every name is validated before the first write.
RECURSIVE add_records_validate_first(_, _, _, _, _)
add_records_validate_first(pfx, current_row, record_tuples, i, cs) ==
    IF \E j \in DOMAIN record_tuples : ~Truthy(record_tuples[j][1])
    THEN [row |-> current_row, exc |-> MissingName, calls |-> cs]
    ELSE IF i > Len(record_tuples)
         THEN [row |-> current_row, exc |-> OK, calls |-> cs]
         ELSE LET key == _record_name(pfx, record_tuples[i][1]).value.v
                  value == record_tuples[i][2]
              IN  add_records_validate_first(pfx, setattr(current_row, key, value),
                                             record_tuples, i + 1,
                                             Append(cs, SetAttrCall(key, value)))

\* The for loop of add_records from position i on; cs are the writes made so far.
RECURSIVE add_records_from(_, _, _, _, _)
add_records_from(pfx, current_row, record_tuples, i, cs) ==
    IF i > Len(record_tuples)
    THEN [row |-> current_row, exc |-> OK, calls |-> cs]
    ELSE LET name == record_tuples[i][1]
             value == record_tuples[i][2]
         IN  IF ~Truthy(name)
             THEN [row |-> current_row, exc |-> MissingName, calls |-> cs]
             ELSE LET key == _record_name(pfx, name).value.v
                  IN  add_records_from(pfx, setattr(current_row, key, value),
                                       record_tuples, i + 1,
                                       Append(cs, SetAttrCall(key, value)))

add_records(pfx, current_row, record_tuples) ==
    add_records_from(pfx, current_row, record_tuples, 1, <<>>)

---------------------------------------------------------------------------
(* Mappings and their items(), in any iteration order *)

Orders(m) ==
    {s \in [1..Cardinality(DOMAIN m) -> DOMAIN m] :
        \A i, j \in DOMAIN s : s[i] = s[j] => i = j}

Items(m, order) == [i \in DOMAIN order |-> <<order[i], m[order[i]]>>]

Batches ==
    UNION {[1..n -> Names \X Values] : n \in 0..MaxBatch}

VariableSets ==
    {S \in SUBSET Names : Cardinality(S) \in 1..MaxVariables}

\* The rows other extensions may have left in the log: any values under the
\* record names this instance writes.
RowKeys(pfx) == {_record_name(pfx, n).value.v : n \in {m \in Names : Truthy(m)}}

Rows(pfx) == UNION {[K -> Values] : K \in SUBSET RowKeys(pfx)}

---------------------------------------------------------------------------
(* AggregationBuffer *)

initialize_aggregators(buf) ==
    [initialized |-> TRUE, values |-> [n \in DOMAIN buf.values |-> 0]]

get_aggregated_values(buf) == buf.values

\* The accumulation updates, run by the algorithm on one batch (use_take_last).
accumulation_updates(buf, batch_values) ==
    [initialized |-> buf.initialized, values |-> batch_values]

---------------------------------------------------------------------------

Init ==
    /\ kind \in {"mixin", "stream", "training"}
    /\ prefix \in Prefixes
    /\ variables \in IF kind = "mixin" THEN {{}} ELSE VariableSets
    /\ algorithm \in [capable : IF kind = "training" THEN BOOLEAN ELSE {TRUE},
                      updates : {<<>>}]
    /\ iterations_done = 0
    /\ row \in IF kind = "mixin" THEN Rows(prefix) ELSE {<<>>}
    /\ buffer = [initialized |-> FALSE, values |-> [n \in variables |-> 0]]
    /\ last_time_called = -1
    /\ pc = "constructed"
    /\ op = "__init__"
    /\ callback_name = ""
    /\ outcome = OK
    /\ batch = <<>>
    /\ calls = <<>>
    /\ result = None
    /\ arg = None
    /\ row0 = row
    /\ buffer0 = buffer
    /\ reports_this_iter = 0

---------------------------------------------------------------------------
(* Direct calls of the mixin's methods: one call on the constructed        *)
(* instance, the log row holding whatever was written before.              *)

RecordNameCall ==
    /\ kind = "mixin"
    /\ op = "__init__"
    /\ \E name \in Names, method \in {"_record_name", "record_name"} :
        LET r == IF method = "record_name"
                 THEN record_name(prefix, [name |-> name])
                 ELSE _record_name(prefix, name)
        IN  /\ op' = method
            /\ arg' = name
            /\ result' = r.value
            /\ outcome' = r.exc
    /\ callback_name' = ""
    /\ batch' = <<>>
    /\ calls' = <<>>
    /\ row0' = row
    /\ buffer0' = buffer
    /\ UNCHANGED <<kind, prefix, variables, algorithm, iterations_done, row,
                   buffer, last_time_called, pc, reports_this_iter>>

AddRecordsCall ==
    /\ kind = "mixin"
    /\ op = "__init__"
    /\ \E record_tuples \in Batches :
        LET r == add_records(prefix, row, record_tuples)
        IN  /\ batch' = record_tuples
            /\ row' = r.row
            /\ outcome' = r.exc
            /\ calls' = r.calls
    /\ op' = "add_records"
    /\ callback_name' = ""
    /\ result' = None
    /\ arg' = None
    /\ row0' = row
    /\ buffer0' = buffer
    /\ UNCHANGED <<kind, prefix, variables, algorithm, iterations_done,
                   buffer, last_time_called, pc, reports_this_iter>>

---------------------------------------------------------------------------
(* DataStreamMonitoring *)

\* Mutant: the records are written under the bare names.
DataStreamMonitoring_do_no_prefix(cb) ==
    /\ \E value_dict \in [variables -> Values] :
        \E order \in Orders(value_dict) :
            LET items == Items(value_dict, order)
                r == add_records(None, row, items)
            IN  /\ batch' = items
                /\ row' = r.row
                /\ outcome' = r.exc
                /\ calls' = <<Call("evaluate")>> \o r.calls
                /\ pc' = IF r.exc = OK THEN "training" ELSE "aborted"
    /\ op' = "do"
    /\ callback_name' = cb
    /\ result' = None
    /\ arg' = None
    /\ row0' = row
    /\ buffer0' = buffer
    /\ UNCHANGED <<kind, prefix, variables, algorithm, buffer, last_time_called>>

DataStreamMonitoring_do(cb) ==
    /\ \E value_dict \in [variables -> Values] :
        \E order \in Orders(value_dict) :
            LET items == Items(value_dict, order)
                r == add_records(prefix, row, items)
            IN  /\ batch' = items
                /\ row' = r.row
                /\ outcome' = r.exc
                /\ calls' = <<Call("evaluate")>> \o r.calls
                /\ pc' = IF r.exc = OK THEN "training" ELSE "aborted"
    /\ op' = "do"
    /\ callback_name' = cb
    /\ result' = None
    /\ arg' = None
    /\ row0' = row
    /\ buffer0' = buffer
    /\ UNCHANGED <<kind, prefix, variables, algorithm, buffer, last_time_called>>

---------------------------------------------------------------------------
(* TrainingDataMonitoring *)

\* Mutant: the updates are registered and the buffer initialized before the
\* algorithm is checked.
do_before_training_check_late ==
    /\ algorithm' = [algorithm EXCEPT
                       !.updates = Append(@, "accumulation_updates")]
    /\ buffer' = initialize_aggregators(buffer)
    /\ IF ~algorithm.capable
       THEN /\ outcome' = NotCapable
            /\ calls' = <<Call("add_updates"), Call("initialize_aggregators")>>
       ELSE /\ outcome' = OK
            /\ calls' = <<Call("add_updates"), Call("initialize_aggregators")>>
    /\ batch' = <<>>
    /\ UNCHANGED row

\* Mutant: the buffer is initialized before the updates are registered.
do_before_training_init_first ==
    /\ IF ~algorithm.capable
       THEN /\ outcome' = NotCapable
            /\ calls' = <<>>
            /\ UNCHANGED <<algorithm, buffer>>
       ELSE /\ algorithm' = [algorithm EXCEPT
                               !.updates = Append(@, "accumulation_updates")]
            /\ buffer' = initialize_aggregators(buffer)
            /\ calls' = <<Call("initialize_aggregators"), Call("add_updates")>>
            /\ outcome' = OK
    /\ batch' = <<>>
    /\ UNCHANGED row

\* The before_training branch of do
do_before_training ==
    /\ IF ~algorithm.capable
       THEN /\ outcome' = NotCapable
            /\ calls' = <<>>
            /\ UNCHANGED <<algorithm, buffer>>
       ELSE /\ algorithm' = [algorithm EXCEPT
                               !.updates = Append(@, "accumulation_updates")]
            /\ buffer' = initialize_aggregators(buffer)
            /\ calls' = <<Call("add_updates"), Call("initialize_aggregators")>>
            /\ outcome' = OK
    /\ batch' = <<>>
    /\ UNCHANGED row

\* Mutant: the buffer is reinitialized before its values are read.
do_report_reset_first ==
    /\ IF iterations_done = last_time_called
       THEN /\ outcome' = DoubleInvocation
            /\ calls' = <<>>
            /\ batch' = <<>>
            /\ UNCHANGED <<buffer, row>>
       ELSE \E order \in Orders(get_aggregated_values(buffer)) :
               LET fresh == initialize_aggregators(buffer)
                   items == Items(get_aggregated_values(fresh), order)
                   r == add_records(prefix, row, items)
               IN  /\ batch' = items
                   /\ row' = r.row
                   /\ outcome' = r.exc
                   /\ buffer' = fresh
                   /\ calls' = <<Call("initialize_aggregators"),
                                 Call("get_aggregated_values")>> \o r.calls
    /\ UNCHANGED algorithm

\* The branch of do for every other callback
do_report ==
    /\ IF iterations_done = last_time_called
       THEN /\ outcome' = DoubleInvocation
            /\ calls' = <<>>
            /\ batch' = <<>>
            /\ UNCHANGED <<buffer, row>>
       ELSE \E order \in Orders(get_aggregated_values(buffer)) :
               LET items == Items(get_aggregated_values(buffer), order)
                   r == add_records(prefix, row, items)
               IN  /\ batch' = items
                   /\ row' = r.row
                   /\ outcome' = r.exc
                   /\ IF r.exc = OK
                      THEN /\ buffer' = initialize_aggregators(buffer)
                           /\ calls' = <<Call("get_aggregated_values")>>
                                       \o r.calls
                                       \o <<Call("initialize_aggregators")>>
                      ELSE /\ buffer' = buffer
                           /\ calls' = <<Call("get_aggregated_values")>>
                                       \o r.calls
    /\ UNCHANGED algorithm

TrainingDataMonitoring_do(cb) ==
    /\ IF cb = "before_training" THEN do_before_training ELSE do_report
    /\ op' = "do"
    /\ callback_name' = cb
    /\ result' = None
    /\ arg' = None
    /\ row0' = row
    /\ buffer0' = buffer
    /\ UNCHANGED <<kind, prefix, variables, last_time_called>>

---------------------------------------------------------------------------
(* The main loop *)

\* before_first_epoch and after_every_epoch
StreamCallback ==
    /\ kind = "stream"
    /\ pc \in {"constructed", "training"}
    /\ reports_this_iter < MaxReports
    /\ \E cb \in StreamCallbacks : DataStreamMonitoring_do(cb)
    /\ reports_this_iter' = reports_this_iter + 1
    /\ UNCHANGED iterations_done

BeforeTraining ==
    /\ kind = "training"
    /\ pc = "constructed"
    /\ TrainingDataMonitoring_do("before_training")
    /\ pc' = IF outcome' = OK THEN "training" ELSE "aborted"
    /\ UNCHANGED <<iterations_done, reports_this_iter>>

ReportCallback ==
    /\ kind = "training"
    /\ pc = "training"
    /\ reports_this_iter < MaxReports
    /\ \E cb \in ReportCallbacks : TrainingDataMonitoring_do(cb)
    /\ pc' = IF outcome' = OK THEN "training" ELSE "aborted"
    /\ reports_this_iter' = reports_this_iter + 1
    /\ UNCHANGED iterations_done

\* One training step: the algorithm runs its updates on a batch.
ProcessBatch ==
    /\ kind \in {"stream", "training"}
    /\ pc = "training"
    /\ iterations_done < MaxIterations
    /\ iterations_done' = iterations_done + 1
    /\ \E batch_values \in [variables -> Values] :
        buffer' = IF Len(algorithm.updates) > 0
                  THEN accumulation_updates(buffer, batch_values)
                  ELSE buffer
    /\ reports_this_iter' = 0
    /\ op' = "process_batch"
    /\ callback_name' = ""
    /\ outcome' = OK
    /\ batch' = <<>>
    /\ calls' = <<>>
    /\ result' = None
    /\ arg' = None
    /\ row0' = row
    /\ buffer0' = buffer
    /\ UNCHANGED <<kind, prefix, variables, algorithm, row, last_time_called, pc>>

Next ==
    \/ RecordNameCall
    \/ AddRecordsCall
    \/ StreamCallback
    \/ BeforeTraining
    \/ ReportCallback
    \/ ProcessBatch

Spec == Init /\ [][Next]_vars

---------------------------------------------------------------------------
(* Vocabulary of the properties *)

\* add_records ran in the last invocation, on batch.
AddRecordsRan ==
    \/ op = "add_records"
    \/ op = "do" /\ kind = "stream"
    \/ /\ op = "do"
       /\ kind = "training"
       /\ callback_name # "before_training"
       /\ outcome # DoubleInvocation

Unnamed(name) == name = None \/ name = Str("")

\* The position of the first pair of b without a name, 0 when every pair has one.
FirstUnnamed(b) ==
    IF \E i \in DOMAIN b : Unnamed(b[i][1])
    THEN CHOOSE i \in DOMAIN b :
            Unnamed(b[i][1]) /\ \A j \in 1..(i - 1) : ~Unnamed(b[j][1])
    ELSE 0

\* The record name the documentation gives: name, or prefix_name.
ExpectedKey(pfx, name) ==
    IF pfx = None \/ pfx = Str("") THEN name.v ELSE pfx.v \o "_" \o name.v

\* r with the first n pairs of b stored under their record names, in order.
RECURSIVE RowAfter(_, _, _, _)
RowAfter(pfx, r, b, n) ==
    IF n = 0 THEN r
    ELSE LET before == RowAfter(pfx, r, b, n - 1)
             key == ExpectedKey(pfx, b[n][1])
         IN  [k \in DOMAIN before \cup {key} |->
                 IF k = key THEN b[n][2] ELSE before[k]]

Writes == SelectSeq(calls, LAMBDA c : c.call = "setattr")

---------------------------------------------------------------------------
(* C2: a batch with at least one empty or missing name makes add_records  *)
(* raise the missing-name error, wherever that pair stands and whatever   *)
(* the other pairs and the prefix are.                                     *)
C2_UnnamedAlwaysRaises ==
    (AddRecordsRan /\ \E i \in DOMAIN batch : Unnamed(batch[i][1]))
        => outcome = MissingName

C2_Witness ==
    /\ op = "add_records"
    /\ Len(batch) = 2
    /\ batch[1][1] = Str("loss")
    /\ batch[2][1] = Str("")
    /\ prefix = Str("valid")
    /\ outcome = MissingName

(* C3 as claimed: when add_records raises the missing-name error the log's *)
(* current row is identical to what it was before the call.                *)
C3_RowUntouchedOnError ==
    (AddRecordsRan /\ outcome = MissingName) => row = row0

(* C3 as amended: when add_records raises the missing-name error, neither  *)
(* the unnamed pair nor any pair after it has been written: fewer writes   *)
(* were made than the position of the first unnamed pair, and the row      *)
(* differs from the row before the call only under record names of pairs   *)
(* that precede it (so not at all when the unnamed pair comes first).      *)
C3_NothingWrittenFromUnnamedOn ==
    (AddRecordsRan /\ outcome = MissingName) =>
        LET i == FirstUnnamed(batch)
            earlier == {ExpectedKey(prefix, batch[j][1]) : j \in 1..(i - 1)}
        IN  /\ i > 0
            /\ Len(Writes) < i
            /\ \A k \in (DOMAIN row \cup DOMAIN row0) \ earlier :
                  k \in DOMAIN row /\ k \in DOMAIN row0 /\ row[k] = row0[k]
            /\ i = 1 => row = row0

C3_Witness ==
    /\ op = "add_records"
    /\ outcome = MissingName
    /\ Len(batch) = 2
    /\ batch[1][1] = None
    /\ batch[2][1] = Str("loss")
    /\ DOMAIN row0 = {}
    /\ row = row0

(* C4: for a non-empty name N, the record name is N when the prefix is     *)
(* None or the empty string, and prefix, "_" and N joined when the prefix  *)
(* is a non-empty string.                                                  *)
C4_RecordName ==
    (op \in {"_record_name", "record_name"} /\ ~Unnamed(arg)) =>
        /\ outcome = OK
        /\ result = IF prefix = None \/ prefix = Str("")
                    THEN arg
                    ELSE Str(prefix.v \o "_" \o arg.v)

C4_Witness ==
    /\ op = "record_name"
    /\ prefix = Str("valid")
    /\ arg = Str("loss")
    /\ result = Str("valid_loss")

(* C9: writes are not transactional.  When the first unnamed pair of the   *)
(* batch is at position i, on the error exactly the pairs before i have    *)
(* been written, in order, under their record names, and no later pair;    *)
(* in the reporting phase of TrainingDataMonitoring the aggregation buffer *)
(* has then not been reinitialized.                                        *)
C9_PartialWrites ==
    (AddRecordsRan /\ outcome = MissingName) =>
        LET i == FirstUnnamed(batch)
        IN  /\ i > 0
            /\ row = RowAfter(prefix, row0, batch, i - 1)
            /\ Len(Writes) = i - 1
            /\ \A j \in 1..(i - 1) :
                  Writes[j] = SetAttrCall(ExpectedKey(prefix, batch[j][1]),
                                          batch[j][2])
            /\ kind = "training" =>
                  /\ buffer = buffer0
                  /\ \A j \in DOMAIN calls : calls[j].call # "initialize_aggregators"

C9_Witness ==
    /\ kind = "training"
    /\ op = "do"
    /\ callback_name = "after_epoch"
    /\ outcome = MissingName
    /\ FirstUnnamed(batch) = 2
    /\ row # row0
    /\ iterations_done > 0
    /\ \E n \in variables : buffer.values[n] \in Values

(* C1: after a successful setup, a reporting invocation that follows       *)
(* another one while iterations_done has not changed raises the            *)
(* double-invocation error and writes nothing to the log.                  *)
C1_SecondReportRaises ==
    (/\ kind = "training"
     /\ op = "do"
     /\ callback_name \in ReportCallbacks
     /\ reports_this_iter >= 2)
        => (outcome = DoubleInvocation /\ row = row0)

(* C5: DataStreamMonitoring.do calls the evaluator once and, when every    *)
(* name of the returned mapping is non-empty, makes one write per name of  *)
(* the mapping, storing the evaluator's value under the prefixed record    *)
(* name, and writes no other field.                                        *)
C5_StreamDoWritesMapping ==
    (kind = "stream" /\ op = "do") =>
        /\ Len(SelectSeq(calls, LAMBDA c : c.call = "evaluate")) = 1
        /\ calls[1] = Call("evaluate")
        /\ (\A i \in DOMAIN batch : ~Unnamed(batch[i][1])) =>
              /\ outcome = OK
              /\ Len(calls) = 1 + Len(batch)
              /\ \A i \in DOMAIN batch :
                    LET key == ExpectedKey(prefix, batch[i][1])
                    IN  /\ Len(SelectSeq(Writes, LAMBDA c : c.key = key)) = 1
                        /\ \E j \in DOMAIN Writes :
                              Writes[j] = SetAttrCall(key, batch[i][2])
                        /\ key \in DOMAIN row
                        /\ row[key] = batch[i][2]
              /\ \A k \in DOMAIN row :
                    \/ \E i \in DOMAIN batch : k = ExpectedKey(prefix, batch[i][1])
                    \/ k \in DOMAIN row0 /\ row[k] = row0[k]
              /\ DOMAIN row0 \subseteq DOMAIN row

C5_Witness ==
    /\ kind = "stream"
    /\ op = "do"
    /\ prefix = Str("valid")
    /\ variables = {Str("loss"), Str("acc")}
    /\ outcome = OK
    /\ DOMAIN row = {"valid_loss", "valid_acc"}
    /\ row["valid_loss"] = 5
    /\ row["valid_acc"] = 9
    /\ row0 # <<>>

(* C6: do called for before_training with an algorithm that is no          *)
(* DifferentiableCostMinimizer raises ValueError; initialize_aggregators   *)
(* and add_updates are not called and the buffer and the log are as they   *)
(* were.                                                                   *)
C6_NotCapableRaises ==
    (/\ kind = "training"
     /\ op = "do"
     /\ callback_name = "before_training"
     /\ ~algorithm.capable)
        => /\ outcome = NotCapable
           /\ calls = <<>>
           /\ algorithm.updates = <<>>
           /\ buffer = buffer0
           /\ ~buffer.initialized
           /\ row = row0

C6_Witness ==
    /\ kind = "training"
    /\ op = "do"
    /\ callback_name = "before_training"
    /\ ~algorithm.capable
    /\ outcome = NotCapable
    /\ pc = "aborted"

(* C7: a reporting invocation that completes without error reads the       *)
(* aggregated values first, writes each under its prefixed record name,    *)
(* and only then reinitializes the buffer: the row holds the values the    *)
(* buffer held when the invocation began, and the buffer is freshly        *)
(* initialized on return.                                                  *)
C7_ReportReadsThenResets ==
    (/\ kind = "training"
     /\ op = "do"
     /\ callback_name # "before_training"
     /\ outcome = OK)
        => /\ Len(calls) = Cardinality(variables) + 2
           /\ calls[1] = Call("get_aggregated_values")
           /\ calls[Len(calls)] = Call("initialize_aggregators")
           /\ \A i \in 2..(Len(calls) - 1) : calls[i].call = "setattr"
           /\ \A n \in variables :
                 /\ ExpectedKey(prefix, n) \in DOMAIN row
                 /\ row[ExpectedKey(prefix, n)] = buffer0.values[n]
                 /\ \E i \in 2..(Len(calls) - 1) :
                       calls[i] = SetAttrCall(ExpectedKey(prefix, n),
                                              buffer0.values[n])
           /\ buffer = [initialized |-> TRUE, values |-> [n \in variables |-> 0]]

C7_Witness ==
    /\ kind = "training"
    /\ op = "do"
    /\ callback_name = "after_epoch"
    /\ outcome = OK
    /\ iterations_done = 2
    /\ variables = {Str("loss"), Str("acc")}
    /\ prefix = Str("valid")
    /\ buffer0.values[Str("loss")] = 5
    /\ buffer0.values[Str("acc")] = 9
    /\ row["valid_loss"] = 5
    /\ row["valid_acc"] = 9
    /\ "valid_loss" \in DOMAIN row0
    /\ row0["valid_loss"] = 9

(* C8: in a run where before_training fires once with a capable algorithm  *)
(* and reporting callbacks follow, add_updates is called exactly once,     *)
(* during setup and before the first initialize_aggregators; no reporting  *)
(* invocation calls add_updates; setup writes nothing to the log; and the  *)
(* buffer, once initialized, stays initialized.                            *)
C8_StateMachine ==
    /\ [](kind = "training" /\ algorithm.capable /\ op # "__init__" =>
            /\ Len(algorithm.updates) = 1
            /\ buffer.initialized
            /\ op = "do" /\ callback_name = "before_training" =>
                  /\ calls = <<Call("add_updates"), Call("initialize_aggregators")>>
                  /\ row = row0
                  /\ ~buffer0.initialized
            /\ op = "do" /\ callback_name # "before_training" =>
                  \A i \in DOMAIN calls : calls[i].call # "add_updates")
    /\ [][/\ buffer.initialized => buffer'.initialized
          /\ algorithm'.updates # algorithm.updates =>
                callback_name' = "before_training"]_vars

C8_Witness ==
    /\ kind = "training"
    /\ op = "do"
    /\ callback_name \in ReportCallbacks
    /\ outcome = OK
    /\ reports_this_iter = 2
    /\ iterations_done = 2
    /\ Len(algorithm.updates) = 1
    /\ buffer.initialized

(* The guard of the reporting branch never fires: _last_time_called is     *)
(* never assigned after construction.                                      *)
GuardNeverFires == outcome # DoubleInvocation /\ last_time_called = -1
====
